---- MODULE Spec2Model ----
(***************************************************************************)
(* NumVision: the HandDetector component (webcam frame -> remote           *)
(* classification -> result/history state) and the detectHandNumber        *)
(* service it calls.                                                       *)
(*                                                                         *)
(* React is modelled at the granularity of one event: an event handler, a  *)
(* timer callback or a promise continuation runs to completion, its state  *)
(* updates are batched, the component re-renders and its effects run       *)
(* before the next event is taken (automatic batching, React 18 and        *)
(* later, which is what the README's `npm create vite@latest` installs).   *)
(*                                                                         *)
(* Encoding of JavaScript values (TLC compares values of one type only):   *)
(*   - an object that may be null is a sequence, <<>> for null/absent and  *)
(*     <<v>> otherwise (currentResult, boundingBox);                       *)
(*   - a number that may be null or undefined is an integer, with Null     *)
(*     and Undef the two negative sentinels;                               *)
(*   - a boolean that may be undefined is one of "true", "false",          *)
(*     "undefined";                                                        *)
(*   - a coordinate divided by 1000 is an exact fraction [n, d] in lowest  *)
(*     terms, NaN the fraction 0/0; it names the double nearest to n / d,  *)
(*     which is what the division yields;                                  *)
(*   - confidence is carried in hundredths (87 for 0.87).                  *)
(***************************************************************************)
EXTENDS Integers, Sequences, FiniteSets, TLC

VARIABLES
  camera,        \* "pending" | "ok" | "failed": getUserMedia outcome (stream / error)
  video,         \* [videoWidth, videoHeight] of the <video> element
  settings,      \* Settings
  state,         \* AppState: isProcessing, currentResult, history
  processFrame,  \* the memoised callback: the isProcessing value its closure captured
  timer,         \* the auto-process effect's timeout: pending?, and the closure it will call
  inflight,      \* classification requests issued and not yet resolved
  calls,         \* number of calls made to detectHandNumber
  resolved,      \* number of calls to detectHandNumber that have resolved
  detections,    \* number of resolved calls that returned detected = true
  lastResponse,  \* <<>> or <<r>>: what the remote call of the last resolved cycle produced
  lastIssue,     \* what issued the latest request: "none" | "manual" | "timer"
  lastEvent,     \* the event handled last and what came of it
  tempCanvas,    \* <<>> or <<c>>: the scratch canvas of the latest capture, [width, height]
  overlay        \* <<>> (cleared) or <<o>>: what the overlay effect drew on the canvas

vars == <<camera, video, settings, state, processFrame, timer, inflight, calls,
          resolved, detections, lastResponse, lastIssue, lastEvent, tempCanvas, overlay>>

----------------------------------------------------------------------------
(* Bounds of the model *)

\* cycles (calls to detectHandNumber) explored by Spec
MaxCycles == 3

\* cycles explored by HistorySpec: enough to overflow the history
MaxHistoryCycles == 12

(* Program constants *)

\* [...].slice(0, 10)
HistoryCap == 10

\* boundingBox values are divided by 1000
BoxScale == 1000

\* const targetWidth = 320
TargetWidth == 320

Null == -1
Undef == -2

True == "true"
False == "false"
Undefined == "undefined"

----------------------------------------------------------------------------
(* Values *)

SettingKeys == {"showBoundingBox", "showConfidence", "showHistory", "autoProcess"}

InitialSettings ==
  [showBoundingBox |-> TRUE, showConfidence |-> TRUE, showHistory |-> TRUE,
   autoProcess |-> FALSE]

InitialState == [isProcessing |-> FALSE, currentResult |-> <<>>, history |-> <<>>]

\* dimensions a camera stream reports once its metadata has loaded
VideoDims == {<<640, 480>>, <<1280, 720>>}

\* largest width and height of the exhaustive range of stream sizes
MaxDim == 80

\* captures made by SamplerSpec
SamplerCycles == 1

\* stream sizes in use beside the exhaustive range
CommonDims == {<<640, 480>>, <<1280, 720>>, <<1920, 1080>>, <<352, 288>>, <<176, 144>>}

SamplerDims == ((1..MaxDim) \X (1..MaxDim)) \cup CommonDims

\* spacing of the x coordinates tried on the 0-1000 grid
GridStep == 100

\* captures made by MirrorSpec
MirrorCycles == 1

MirrorGrid == {k \in 0..BoxScale : k % GridStep = 0} \cup {BoxScale}

NoTimer == [pending |-> FALSE, isProcessing |-> FALSE]

RECURSIVE GCD(_, _)
GCD(a, b) == IF b = 0 THEN a ELSE GCD(b, a % b)

NaN == [n |-> 0, d |-> 0]

\* v / 1000 in JavaScript: undefined / 1000 is NaN, null / 1000 is 0
Div1000(v) ==
  IF v = Undef THEN NaN
  ELSE IF v = Null THEN [n |-> 0, d |-> 1]
  ELSE LET g == GCD(v, BoxScale) IN [n |-> v \div g, d |-> BoxScale \div g]

----------------------------------------------------------------------------
(* JavaScript Number arithmetic (IEEE 754 binary64, round to nearest, ties to *)
(* even) on the values the component computes: quotients of small naturals,  *)
(* differences of values in [0, 1], products with a pixel count.             *)
(*                                                                           *)
(* A double is [cls, s, e, m]: cls is "nan", "zero" or "num"; a "num" is     *)
(* (-1)^s * m[1].m[2]...m[53] * 2^e in binary, with m[1] = 1. Infinities and *)
(* subnormals are out of reach of these values.                              *)

\* digits of a binary64 significand
Precision == 53

\* binary digits worked at a time: with operands below 2^15 (pixel counts,
\* the box scale) products and shifts stay below 2^31
Chunk == 16

\* digits of a quotient produced before rounding
FractionDigits == 2 * Precision

Min(a, b) == IF a < b THEN a ELSE b

Max(a, b) == IF a < b THEN b ELSE a

Zeros(n) == [i \in 1..n |-> 0]

FNaN == [cls |-> "nan", s |-> 0, e |-> 0, m |-> <<>>]

FZero == [cls |-> "zero", s |-> 0, e |-> 0, m |-> <<>>]

FNum(s, e, m) == [cls |-> "num", s |-> s, e |-> e, m |-> m]

\* the literal 1
FOne == FNum(0, 0, <<1>> \o Zeros(Precision - 1))

Bit == {0, 1}

\* the binary numeral of a natural, most significant digit first (<<>> for 0)
ToBits[n \in Nat] == IF n = 0 THEN <<>> ELSE Append(ToBits[n \div 2], n % 2)

FromBits[b \in Seq(Bit)] ==
  IF b = <<>> THEN 0 ELSE 2 * FromBits[SubSeq(b, 1, Len(b) - 1)] + b[Len(b)]

Pow2[n \in Nat] == IF n = 0 THEN 1 ELSE 2 * Pow2[n - 1]

\* the numeral of n < 2^w on w digits
Numeral(n, w) == LET b == ToBits[n] IN Zeros(w - Len(b)) \o b

\* Rounding of an exact result: bits is a binary numeral whose first digit has
\* weight 2^e, sticky tells that non-zero digits follow its last one.
RoundBits(s, e, bits, sticky) ==
  IF \A i \in 1..Len(bits) : bits[i] = 0 THEN FZero
  ELSE
    LET k == CHOOSE i \in 1..Len(bits) : bits[i] = 1 /\ \A j \in 1..(i - 1) : bits[j] = 0
        sig == SubSeq(bits, k, Len(bits))
        e1 == e - (k - 1)
        n == Len(sig)
    IN IF n <= Precision THEN FNum(s, e1, sig \o Zeros(Precision - n))
       ELSE
         LET keep == SubSeq(sig, 1, Precision)
             rest == sticky \/ \E i \in (Precision + 2)..n : sig[i] = 1
             up == sig[Precision + 1] = 1 /\ (rest \/ keep[Precision] = 1)
         IN IF ~up THEN FNum(s, e1, keep)
            ELSE IF \A i \in 1..Precision : keep[i] = 1
              THEN FNum(s, e1 + 1, <<1>> \o Zeros(Precision - 1))
            ELSE LET z == CHOOSE i \in 1..Precision :
                            keep[i] = 0 /\ \A j \in (i + 1)..Precision : keep[j] = 1
                 IN FNum(s, e1, SubSeq(keep, 1, z - 1) \o <<1>> \o Zeros(Precision - z))

\* the first n binary digits of r / b (r < b) in groups of Chunk digits, and
\* whether a remainder is left
LongDivision[r \in Nat, b \in Nat, n \in Int] ==
  IF n <= 0 \/ r = 0 THEN [bits |-> <<>>, rest |-> r # 0]
  ELSE LET q == (r * Pow2[Chunk]) \div b
           t == LongDivision[(r * Pow2[Chunk]) % b, b, n - Chunk]
       IN [bits |-> Numeral(q, Chunk) \o t.bits, rest |-> t.rest]

\* a / b for naturals a and b > 0
FDiv(a, b) ==
  IF a = 0 THEN FZero
  ELSE LET int == ToBits[a \div b]
           frac == LongDivision[a % b, b, FractionDigits]
       IN RoundBits(0, Len(int) - 1, int \o frac.bits, frac.rest)

\* the numeral of bits * k + carry, worked in groups of Chunk digits
TimesBits[bits \in Seq(Bit), k \in Nat, carry \in Nat] ==
  IF bits = <<>> THEN ToBits[carry]
  ELSE LET n == Len(bits)
           w == Min(n, Chunk)
           t == FromBits[SubSeq(bits, n - w + 1, n)] * k + carry
       IN TimesBits[SubSeq(bits, 1, n - w), k, t \div Pow2[w]] \o Numeral(t % Pow2[w], w)

\* x * k for a natural k
FMul(x, k) ==
  IF x.cls = "nan" THEN FNaN
  ELSE IF x.cls = "zero" \/ k = 0 THEN FZero
  ELSE LET p == TimesBits[x.m, k, 0]
       IN RoundBits(x.s, x.e + (Len(p) - Precision), p, FALSE)

\* the numeral of a - b - borrow, for numerals of one length with
\* a >= b + borrow, worked in groups of Chunk digits
MinusBits[a \in Seq(Bit), b \in Seq(Bit), borrow \in Bit] ==
  IF a = <<>> THEN <<>>
  ELSE LET n == Len(a)
           w == Min(n, Chunk)
           t == FromBits[SubSeq(a, n - w + 1, n)] - FromBits[SubSeq(b, n - w + 1, n)] - borrow
       IN MinusBits[SubSeq(a, 1, n - w), SubSeq(b, 1, n - w), IF t < 0 THEN 1 ELSE 0]
            \o Numeral(IF t < 0 THEN t + Pow2[w] ELSE t, w)

\* x - y for x and y that are not negative
FSub(x, y) ==
  IF x.cls = "nan" \/ y.cls = "nan" THEN FNaN
  ELSE IF y.cls = "zero" THEN x
  ELSE IF x.cls = "zero" THEN [y EXCEPT !.s = 1]
  ELSE
    LET top == Max(x.e, y.e)
        low == Min(x.e, y.e) - (Precision - 1)
        Aligned(d) == Zeros(top - d.e) \o d.m \o Zeros((d.e - (Precision - 1)) - low)
        a == Aligned(x)
        b == Aligned(y)
    IN IF a = b THEN FZero
       ELSE LET k == CHOOSE i \in 1..Len(a) : a[i] # b[i] /\ \A j \in 1..(i - 1) : a[j] = b[j]
            IN IF a[k] = 1 THEN RoundBits(0, top, MinusBits[a, b, 0], FALSE)
                           ELSE RoundBits(1, top, MinusBits[b, a, 0], FALSE)

\* x <= y for x and y that are not negative (false when either is NaN)
FLeq(x, y) ==
  LET d == FSub(y, x) IN d.cls = "zero" \/ (d.cls = "num" /\ d.s = 0)

\* |x - y| <= 2^p for x and y that are not negative
FWithin(x, y, p) ==
  LET d == FSub(x, y)
  IN \/ d.cls = "zero"
     \/ /\ d.cls = "num"
        /\ (d.e < p \/ (d.e = p /\ d.m = <<1>> \o Zeros(Precision - 1)))

\* conversion of a Number that is not negative to a WebIDL unsigned long
\* (canvas.width, canvas.height): NaN gives 0, the fraction is dropped
ToUnsignedLong(x) ==
  IF x.cls # "num" \/ x.e < 0 THEN 0 ELSE FromBits[SubSeq(x.m, 1, x.e + 1)]

\* the Number a coordinate fraction stands for
Double(f) == IF f.d = 0 THEN FNaN ELSE FDiv(f.n, f.d)

----------------------------------------------------------------------------
(* services/geminiService.ts *)

EmptyBody ==
  [detected |-> Undefined, number |-> Undef, boundingBox |-> <<>>,
   confidence |-> Undef, explanation |-> Undefined]

\* What ai.models.generateContent can produce:
\*   "throw"        the call rejects (network, quota, ...)
\*   "notext"       a response whose text is undefined or empty
\*   "syntaxerror"  text that is not JSON
\*   "jsonnull"     the text "null"
\*   "object"       text holding a JSON object, its members in body
Outcome(kind, body) == [kind |-> kind, body |-> body]

Box(ymin, xmin, ymax, xmax) == [ymin |-> ymin, xmin |-> xmin, ymax |-> ymax, xmax |-> xmax]

\* the spec's end-to-end response: a clear detection
DetectedFour ==
  [detected |-> True, number |-> 4, boundingBox |-> <<Box(100, 200, 600, 700)>>,
   confidence |-> 87, explanation |-> "Four fingers"]

\* a detection whose box touches the 0 and 1000 boundaries
DetectedEdge ==
  [detected |-> True, number |-> 10, boundingBox |-> <<Box(0, 0, 1000, 1000)>>,
   confidence |-> 100, explanation |-> Undefined]

\* the schema's minimal object: only the required members
NotDetectedMinimal ==
  [detected |-> False, number |-> Undef, boundingBox |-> <<>>,
   confidence |-> 0, explanation |-> Undefined]

\* allowed by the schema: no detection, yet a number and a box
NotDetectedWithBox ==
  [detected |-> False, number |-> 3, boundingBox |-> <<Box(100, 200, 600, 700)>>,
   confidence |-> 40, explanation |-> "Unclear gesture"]

\* allowed by the schema (no member of boundingBox is required): a box short of two coordinates
DetectedPartialBox ==
  [detected |-> True, number |-> 5, boundingBox |-> <<Box(100, 200, Undef, Undef)>>,
   confidence |-> 90, explanation |-> "Open hand"]

\* against the schema: the required members are missing
MissingRequired ==
  [detected |-> Undefined, number |-> 2, boundingBox |-> <<>>,
   confidence |-> Undef, explanation |-> "Two fingers"]

Bodies ==
  {DetectedFour, DetectedEdge, NotDetectedMinimal, NotDetectedWithBox,
   DetectedPartialBox, MissingRequired}

\* bodies the declared schema admits (detected and confidence present, typed members)
SchemaBodies == Bodies \ {MissingRequired}

FailureKinds == {"throw", "notext", "syntaxerror", "jsonnull"}

Responses ==
  {Outcome(k, EmptyBody) : k \in FailureKinds} \cup {Outcome("object", b) : b \in Bodies}

HistoryResponses == {Outcome("object", DetectedFour), Outcome("object", NotDetectedMinimal)}

\* detections whose box spans every ordered pair of x coordinates of the grid
MirrorBoxes ==
  {Box(100, p[1], 600, p[2]) : p \in {q \in MirrorGrid \X MirrorGrid : q[1] <= q[2]}}

MirrorResponses ==
  {Outcome("object", [DetectedFour EXCEPT !.boundingBox = <<b>>]) : b \in MirrorBoxes}

\* lines 43-74: await generateContent, response.text, JSON.parse
ParseResponse(r) ==
  IF r.kind \in {"throw", "notext", "syntaxerror"}
    THEN [threw |-> TRUE, isNull |-> FALSE, body |-> EmptyBody]
    ELSE [threw |-> FALSE, isNull |-> r.kind = "jsonnull", body |-> r.body]

\* lines 77-85
NormalizeBox(boundingBox) ==
  IF boundingBox # <<>>
    THEN <<[ymin |-> Div1000(boundingBox[1].ymin),
            xmin |-> Div1000(boundingBox[1].xmin),
            ymax |-> Div1000(boundingBox[1].ymax),
            xmax |-> Div1000(boundingBox[1].xmax)]>>
    ELSE <<>>

\* lines 87-93
MapResult(result) ==
  [detected |-> result.detected,
   number |-> result.number,
   boundingBox |-> NormalizeBox(result.boundingBox),
   confidence |-> result.confidence,
   explanation |-> result.explanation]

\* lines 97-103
NegativeResult ==
  [detected |-> False, number |-> Null, boundingBox |-> <<>>, confidence |-> 0,
   explanation |-> "Error processing image"]

\* the body of the try block: threw, or the value returned
TryBlock(r) ==
  LET p == ParseResponse(r) IN
    IF p.threw \/ p.isNull    \* reading null.boundingBox is a TypeError
      THEN [threw |-> TRUE, value |-> MapResult(EmptyBody)]
      ELSE [threw |-> FALSE, value |-> MapResult(p.body)]

\* faulty variant: the catch block rethrows
detectHandNumberRethrows(r) ==
  LET t == TryBlock(r) IN
    IF t.threw THEN [rejected |-> TRUE, value |-> NegativeResult]
               ELSE [rejected |-> FALSE, value |-> t.value]

\* how the promise returned by detectHandNumber settles
detectHandNumber(r) ==
  LET t == TryBlock(r) IN
    IF t.threw THEN [rejected |-> FALSE, value |-> NegativeResult]
               ELSE [rejected |-> FALSE, value |-> t.value]

----------------------------------------------------------------------------
(* components/HandDetector.tsx *)

\* Array.prototype.slice(0, n)
Slice0(s, n) == SubSeq(s, 1, Min(n, Len(s)))

\* JavaScript truthiness of result.detected
Truthy(d) == d = True

\* faulty variant: the in-flight flag is not raised
MarkProcessingForgotten(prev) == prev

\* line 64: setState(prev => ({ ...prev, isProcessing: true }))
MarkProcessing(prev) == [prev EXCEPT !.isProcessing = TRUE]

\* faulty variant: the new entry is appended, not prepended
RecordResultAppends(prev, result, now) ==
  LET newHistory ==
        IF Truthy(result.detected)
          THEN Slice0(prev.history \o <<[timestamp |-> now, result |-> result]>>, HistoryCap)
          ELSE prev.history
  IN [prev EXCEPT !.isProcessing = FALSE,
                  !.currentResult = <<result>>,
                  !.history = newHistory]

\* faulty variant: every result is recorded in history
RecordResultAlways(prev, result, now) ==
  [prev EXCEPT !.isProcessing = FALSE,
               !.currentResult = <<result>>,
               !.history = Slice0(<<[timestamp |-> now, result |-> result]>> \o prev.history,
                                  HistoryCap)]

\* faulty variant: the in-flight flag is left up when the result is recorded
RecordResultKeepsFlag(prev, result, now) ==
  LET newHistory ==
        IF Truthy(result.detected)
          THEN Slice0(<<[timestamp |-> now, result |-> result]>> \o prev.history, HistoryCap)
          ELSE prev.history
  IN [prev EXCEPT !.currentResult = <<result>>,
                  !.history = newHistory]

\* lines 90-101; now is Date.now(), read as logical time: the ordinal of the
\* cycle whose result is being recorded
RecordResult(prev, result, now) ==
  LET newHistory ==
        IF Truthy(result.detected)
          THEN Slice0(<<[timestamp |-> now, result |-> result]>> \o prev.history, HistoryCap)
          ELSE prev.history
  IN [prev EXCEPT !.isProcessing = FALSE,
                  !.currentResult = <<result>>,
                  !.history = newHistory]

\* line 105: setState(prev => ({ ...prev, isProcessing: false }))
ClearProcessing(prev) == [prev EXCEPT !.isProcessing = FALSE]

\* line 187
Toggled(prev, key) == [prev EXCEPT ![key] = ~prev[key]]

\* Math.round of a Number that is not negative
MathRound(x) ==
  IF x.cls # "num" \/ x.e < -1 THEN 0
  ELSE IF x.e = -1 THEN 1
  ELSE FromBits[SubSeq(x.m, 1, x.e + 1)] + (IF x.e + 2 <= Precision THEN x.m[x.e + 2] ELSE 0)

\* faulty variant: the height is rounded to the nearest integer
DownscaledCanvasRounded(v) ==
  LET scale == FDiv(TargetWidth, v.videoWidth)
      targetHeight == FMul(scale, v.videoHeight)
  IN [width |-> ToUnsignedLong(FDiv(TargetWidth, 1)), height |-> MathRound(targetHeight)]

\* lines 70-77: the scratch canvas; scale = targetWidth / video.videoWidth,
\* targetHeight = video.videoHeight * scale, and the canvas takes both
\* sizes through its unsigned long attributes
DownscaledCanvas(v) ==
  LET scale == FDiv(TargetWidth, v.videoWidth)
      targetHeight == FMul(scale, v.videoHeight)
  IN [width |-> ToUnsignedLong(FDiv(TargetWidth, 1)), height |-> ToUnsignedLong(targetHeight)]

\* DownscaledCanvas for every stream size of the model, worked out once
\* (@@ makes TLC keep the table as an explicit function)
ScratchCanvases ==
  [dims \in VideoDims \cup SamplerDims |->
     DownscaledCanvas([videoWidth |-> dims[1], videoHeight |-> dims[2]])] @@ <<>>

\* faulty variant: the dimensions are not checked
RunProcessFrameUnguarded(closure, ctxOk) ==
  IF camera = "failed" \/ closure.isProcessing
    THEN [state |-> state, outcome |-> "noop", tempCanvas |-> tempCanvas]
  ELSE IF ~ctxOk
    THEN [state |-> ClearProcessing(MarkProcessing(state)), outcome |-> "error",
          tempCanvas |-> tempCanvas]
  ELSE [state |-> MarkProcessing(state), outcome |-> "issued", tempCanvas |-> tempCanvas]

\* lines 58-107, up to the await: the closure is the processFrame that was
\* called (the isProcessing its render captured); ctxOk is whether
\* getContext('2d') gave a context. The state updates of one synchronous run
\* are applied in order before the next render.
\* The outcome is "noop" (a guard returned), "error" (the catch block ran) or
\* "issued" (detectHandNumber was called).
RunProcessFrame(closure, ctxOk) ==
  IF camera = "failed" \/ closure.isProcessing      \* !videoRef.current || state.isProcessing
    THEN [state |-> state, outcome |-> "noop", tempCanvas |-> tempCanvas]
  ELSE IF video.videoWidth = 0 \/ video.videoHeight = 0
    THEN [state |-> state, outcome |-> "noop", tempCanvas |-> tempCanvas]
  ELSE IF ~ctxOk                                    \* throw, caught at line 103
    THEN [state |-> ClearProcessing(MarkProcessing(state)), outcome |-> "error",
          tempCanvas |-> <<ScratchCanvases[<<video.videoWidth, video.videoHeight>>]>>]
  ELSE [state |-> MarkProcessing(state), outcome |-> "issued",
        tempCanvas |-> <<ScratchCanvases[<<video.videoWidth, video.videoHeight>>]>>]

\* line 107: useCallback(..., [state.isProcessing])
UseCallback(old, oldState, newState) ==
  IF newState.isProcessing # oldState.isProcessing
    THEN [isProcessing |-> newState.isProcessing]
    ELSE old

\* faulty variant: the effect has no cleanup, a scheduled timeout outlives toggle-off
AutoProcessEffectNoCleanup(oldSettings, oldState, newSettings, newState, pf, tmr) ==
  IF newSettings.autoProcess # oldSettings.autoProcess
     \/ newState.isProcessing # oldState.isProcessing
    THEN IF newSettings.autoProcess /\ ~newState.isProcessing
           THEN [pending |-> TRUE, isProcessing |-> pf.isProcessing]
           ELSE tmr
    ELSE tmr

\* faulty variant: the effect schedules whenever nothing is in flight, toggle or not
AutoProcessEffectIgnoresToggle(oldSettings, oldState, newSettings, newState, pf, tmr) ==
  IF newSettings.autoProcess # oldSettings.autoProcess
     \/ newState.isProcessing # oldState.isProcessing
    THEN IF ~newState.isProcessing
           THEN [pending |-> TRUE, isProcessing |-> pf.isProcessing]
           ELSE NoTimer
    ELSE tmr

\* lines 110-121: the effect runs again only when a dependency changed
\* (settings.autoProcess, state.isProcessing, processFrame); its cleanup
\* clears the timeout of the run before
AutoProcessEffect(oldSettings, oldState, newSettings, newState, pf, tmr) ==
  IF newSettings.autoProcess # oldSettings.autoProcess
     \/ newState.isProcessing # oldState.isProcessing
    THEN IF newSettings.autoProcess /\ ~newState.isProcessing
           THEN [pending |-> TRUE, isProcessing |-> pf.isProcessing]
           ELSE NoTimer
    ELSE tmr

\* faulty variant: the two x coordinates are flipped but not exchanged
DrawOverlayUnswapped(v, result) ==
  LET box == result.boundingBox[1]
      ymin == Double(box.ymin)
      ymax == Double(box.ymax)
      mirroredXMin == FSub(FOne, Double(box.xmin))
      mirroredXMax == FSub(FOne, Double(box.xmax))
  IN [width |-> v.videoWidth, height |-> v.videoHeight,
      mirroredXMin |-> mirroredXMin, mirroredXMax |-> mirroredXMax,
      ymin |-> ymin, ymax |-> ymax,
      label |-> result.number # Null]

\* lines 139-171: the canvas takes the video's size and the box is flipped in
\* x; the rectangle stroked is these coordinates scaled by the canvas size
\* (lines 148-151); the label is drawn when number !== null
DrawOverlay(v, result) ==
  LET box == result.boundingBox[1]
      ymin == Double(box.ymin)
      ymax == Double(box.ymax)
      mirroredXMin == FSub(FOne, Double(box.xmax))
      mirroredXMax == FSub(FOne, Double(box.xmin))
  IN [width |-> v.videoWidth, height |-> v.videoHeight,
      mirroredXMin |-> mirroredXMin, mirroredXMax |-> mirroredXMax,
      ymin |-> ymin, ymax |-> ymax,
      label |-> result.number # Null]

\* the results of the model that carry a box
BoxedResults ==
  {MapResult(r.body) :
     r \in {q \in Responses \cup HistoryResponses \cup MirrorResponses :
               q.kind = "object" /\ q.body.boundingBox # <<>>}}

\* DrawOverlay for every stream size and boxed result of the model, worked out
\* once (@@ makes TLC keep the table as an explicit function)
Overlays ==
  [dims \in VideoDims, result \in BoxedResults |->
     DrawOverlay([videoWidth |-> dims[1], videoHeight |-> dims[2]], result)] @@ <<>>

\* lines 124-183: the effect runs again when state.currentResult or
\* settings.showBoundingBox changed; without a canvas (the error view is
\* rendered in its place) it does nothing, without a box to show it clears
\* the canvas, otherwise it draws
OverlayEffect(oldSettings, oldState, newSettings, newState, old) ==
  IF newState.currentResult = oldState.currentResult
     /\ newSettings.showBoundingBox = oldSettings.showBoundingBox
    THEN old
  ELSE IF camera = "failed"
    THEN old
  ELSE IF newState.currentResult = <<>>
          \/ newState.currentResult[1].boundingBox = <<>>
          \/ ~newSettings.showBoundingBox
    THEN <<>>
  ELSE <<Overlays[<<video.videoWidth, video.videoHeight>>, newState.currentResult[1]]>>

\* a render after the updates of one event: new closure, then the effects
Render(newSettings, newState, tmr) ==
  LET pf == UseCallback(processFrame, state, newState) IN
    /\ settings' = newSettings
    /\ state' = newState
    /\ processFrame' = pf
    /\ timer' = AutoProcessEffect(settings, state, newSettings, newState, pf, tmr)
    /\ overlay' = OverlayEffect(settings, state, newSettings, newState, overlay)

Event(kind, outcome) == [kind |-> kind, outcome |-> outcome]

Init ==
  /\ camera = "pending"
  /\ video = [videoWidth |-> 0, videoHeight |-> 0]
  /\ settings = InitialSettings
  /\ state = InitialState
  /\ processFrame = [isProcessing |-> FALSE]
  /\ timer = NoTimer
  /\ inflight = 0
  /\ calls = 0
  /\ resolved = 0
  /\ detections = 0
  /\ lastResponse = <<>>
  /\ lastIssue = "none"
  /\ lastEvent = Event("init", "none")
  /\ tempCanvas = <<>>
  /\ overlay = <<>>

\* faulty variant: acquisition is tried again after a failure
CameraGrantedOnRetry ==
  /\ camera \in {"pending", "failed"}
  /\ camera' = "ok"
  /\ Render(settings, state, timer)
  /\ lastEvent' = Event("camera", "none")
  /\ UNCHANGED <<video, inflight, calls, resolved, detections, lastResponse, lastIssue,
                 tempCanvas>>

\* lines 30-40: getUserMedia resolves; setStream, srcObject
CameraGranted ==
  /\ camera = "pending"
  /\ camera' = "ok"
  /\ Render(settings, state, timer)
  /\ lastEvent' = Event("camera", "none")
  /\ UNCHANGED <<video, inflight, calls, resolved, detections, lastResponse, lastIssue,
                 tempCanvas>>

\* lines 41-44: getUserMedia rejects; setError
CameraDenied ==
  /\ camera = "pending"
  /\ camera' = "failed"
  /\ Render(settings, state, timer)
  /\ lastEvent' = Event("camera", "none")
  /\ UNCHANGED <<video, inflight, calls, resolved, detections, lastResponse, lastIssue,
                 tempCanvas>>

\* the <video> element learns the stream's dimensions (onLoadedMetadata does nothing)
LoadedMetadata(dims) ==
  /\ camera = "ok"
  /\ video.videoWidth = 0
  /\ video' = [videoWidth |-> dims[1], videoHeight |-> dims[2]]
  /\ lastEvent' = Event("metadata", "none")
  /\ UNCHANGED <<camera, settings, state, processFrame, timer, inflight, calls,
                 resolved, detections, lastResponse, lastIssue, tempCanvas, overlay>>

\* lines 186-188, onClick of a toggle
ToggleSetting(key) ==
  /\ Render(Toggled(settings, key), state, timer)
  /\ lastEvent' = Event("toggle", "none")
  /\ UNCHANGED <<camera, video, inflight, calls, resolved, detections, lastResponse,
                 lastIssue, tempCanvas>>

\* lines 286-295: a click on "Capture Single Frame", rendered while
\* autoProcess is off; a disabled button takes no click
ManualTrigger(ctxOk, limit) ==
  /\ ~settings.autoProcess
  /\ calls < limit
  /\ LET run == IF state.isProcessing
                  THEN [state |-> state, outcome |-> "noop", tempCanvas |-> tempCanvas]
                  ELSE RunProcessFrame(processFrame, ctxOk)
         issued == run.outcome = "issued"
     IN /\ Render(settings, run.state, timer)
        /\ inflight' = IF issued THEN inflight + 1 ELSE inflight
        /\ calls' = IF issued THEN calls + 1 ELSE calls
        /\ lastIssue' = IF issued THEN "manual" ELSE lastIssue
        /\ lastEvent' = Event("manual", run.outcome)
        /\ tempCanvas' = run.tempCanvas
  /\ UNCHANGED <<camera, video, resolved, detections, lastResponse>>

\* lines 115-117: the timeout fires and calls the processFrame it captured
TimerFire(ctxOk, limit) ==
  /\ timer.pending
  /\ calls < limit
  /\ LET run == RunProcessFrame([isProcessing |-> timer.isProcessing], ctxOk)
         issued == run.outcome = "issued"
     IN /\ Render(settings, run.state, NoTimer)
        /\ inflight' = IF issued THEN inflight + 1 ELSE inflight
        /\ calls' = IF issued THEN calls + 1 ELSE calls
        /\ lastIssue' = IF issued THEN "timer" ELSE lastIssue
        /\ lastEvent' = Event("timer", run.outcome)
        /\ tempCanvas' = run.tempCanvas
  /\ UNCHANGED <<camera, video, resolved, detections, lastResponse>>

\* faulty variant: a result arriving after the loop was switched off is dropped
ResolveUnlessSwitchedOff(r) ==
  /\ inflight > 0
  /\ LET out == detectHandNumber(r)
         newState == IF out.rejected \/ (lastIssue = "timer" /\ ~settings.autoProcess)
                       THEN ClearProcessing(state)
                       ELSE RecordResult(state, out.value, resolved + 1)
     IN /\ Render(settings, newState, timer)
        /\ lastEvent' = Event("resolve", IF out.rejected THEN "rejected" ELSE "recorded")
        /\ detections' = IF out.value.detected = True THEN detections + 1 ELSE detections
  /\ inflight' = inflight - 1
  /\ resolved' = resolved + 1
  /\ lastResponse' = <<r>>
  /\ UNCHANGED <<camera, video, calls, lastIssue, tempCanvas>>

\* lines 88-106: the awaited promise settles with what the remote call produced
Resolve(r) ==
  /\ inflight > 0
  /\ LET out == detectHandNumber(r)
         newState == IF out.rejected
                       THEN ClearProcessing(state)
                       ELSE RecordResult(state, out.value, resolved + 1)
     IN /\ Render(settings, newState, timer)
        /\ lastEvent' = Event("resolve", IF out.rejected THEN "rejected" ELSE "recorded")
        /\ detections' = IF out.value.detected = True THEN detections + 1 ELSE detections
  /\ inflight' = inflight - 1
  /\ resolved' = resolved + 1
  /\ lastResponse' = <<r>>
  /\ UNCHANGED <<camera, video, calls, lastIssue, tempCanvas>>

Next ==
  \/ CameraGranted
  \/ CameraDenied
  \/ \E dims \in VideoDims : LoadedMetadata(dims)
  \/ \E key \in SettingKeys : ToggleSetting(key)
  \/ \E ctxOk \in BOOLEAN : ManualTrigger(ctxOk, MaxCycles)
  \/ \E ctxOk \in BOOLEAN : TimerFire(ctxOk, MaxCycles)
  \/ \E r \in Responses : Resolve(r)

Spec == Init /\ [][Next]_vars

\* The loop with a camera that is granted, one stream size, a canvas context
\* that is always available and two responses (a detection and a
\* non-detection), run long enough to overflow the history.
HistoryNext ==
  \/ CameraGranted
  \/ LoadedMetadata(<<640, 480>>)
  \/ ToggleSetting("autoProcess")
  \/ ManualTrigger(TRUE, MaxHistoryCycles)
  \/ TimerFire(TRUE, MaxHistoryCycles)
  \/ \E r \in HistoryResponses : Resolve(r)

HistorySpec == Init /\ [][HistoryNext]_vars

\* The capture path alone, over a range of stream sizes: one response, with
\* and without a canvas context.
SamplerNext ==
  \/ CameraGranted
  \/ \E dims \in SamplerDims : LoadedMetadata(dims)
  \/ \E ctxOk \in BOOLEAN : ManualTrigger(ctxOk, SamplerCycles)
  \/ Resolve(Outcome("object", NotDetectedMinimal))

SamplerSpec == Init /\ [][SamplerNext]_vars

\* The overlay alone, over the boxes of the grid: one stream size, a canvas
\* context that is always available, the box display switched off and on.
MirrorNext ==
  \/ CameraGranted
  \/ LoadedMetadata(<<640, 480>>)
  \/ ToggleSetting("showBoundingBox")
  \/ ManualTrigger(TRUE, MirrorCycles)
  \/ \E r \in MirrorResponses : Resolve(r)

MirrorSpec == Init /\ [][MirrorNext]_vars

----------------------------------------------------------------------------
(* C1 *)

\* C1: at most one classification request is outstanding at any time: no
\* step taken while a request is in flight (a manual trigger, a timer
\* firing, a toggle) calls detectHandNumber, and each resolution finds
\* exactly one call made since the resolution before it.
C1_OneRequestOutstanding ==
  [][ /\ inflight' <= 1
      /\ (inflight > 0 => calls' = calls)
      /\ (resolved' # resolved => calls = resolved + 1) ]_vars

\* a click on the capture button arrived while the second cycle was in flight
\* and issued nothing
C1_Witness ==
  /\ inflight = 1
  /\ resolved >= 1
  /\ lastEvent = Event("manual", "noop")

----------------------------------------------------------------------------
(* C2 *)

NewestFirst(history) ==
  \A i \in 1..(Len(history) - 1) : history[i].timestamp > history[i + 1].timestamp

\* C2: history never holds more than 10 entries and is ordered newest
\* first (each entry recorded by a later-resolved cycle than the entry after
\* it); a result arriving at a full history goes to the front, the other
\* entries shift down by one and the oldest is dropped.
C2_HistoryBoundedNewestFirst ==
  /\ [](Len(state.history) <= HistoryCap /\ NewestFirst(state.history))
  /\ [][ (Len(state.history) = HistoryCap /\ state'.history # state.history)
           => /\ Len(state'.history) = HistoryCap
              /\ state'.history[1].timestamp = resolved'
              /\ \A i \in 1..(HistoryCap - 1) : state'.history[i + 1] = state.history[i] ]_vars

\* the eleventh detection has just been recorded: it is the first entry, ten
\* entries are kept and the oldest detection is no longer among them
C2_Witness ==
  /\ detections = HistoryCap + 1
  /\ lastEvent = Event("resolve", "recorded")
  /\ Len(state.history) = HistoryCap
  /\ state.history[1].timestamp = resolved
  /\ state.history[HistoryCap].timestamp > 1

----------------------------------------------------------------------------
(* C3 *)

\* the value the last resolved call returned
LastReturned == detectHandNumber(lastResponse[1]).value

\* C3: every history entry has result.detected = true; history changes only
\* when a cycle resolves with such a result, which becomes its first entry;
\* a cycle resolving with any other result (the absorbed-failure result
\* included) leaves history exactly as it was.
C3_OnlyDetectedRecorded ==
  /\ [](\A i \in 1..Len(state.history) : state.history[i].result.detected = True)
  /\ [][ /\ (resolved' # resolved /\ detectHandNumber(lastResponse'[1]).value.detected # True)
              => state'.history = state.history
         /\ state'.history # state.history
              => /\ resolved' = resolved + 1
                 /\ detectHandNumber(lastResponse'[1]).value.detected = True
                 /\ state'.history[1].result = detectHandNumber(lastResponse'[1]).value ]_vars

\* a failed call resolved after a detection had been recorded: the entry is still there
C3_Witness ==
  /\ lastEvent = Event("resolve", "recorded")
  /\ lastResponse = <<Outcome("throw", EmptyBody)>>
  /\ state.currentResult = <<NegativeResult>>
  /\ Len(state.history) = 1

----------------------------------------------------------------------------
(* C4 *)

\* C4: detectHandNumber never raises (no awaited call ever rejects), and
\* when the remote call throws, the response has no text or the text fails
\* to parse, the value returned, which the cycle records, is exactly
\* {detected:false, number:null, boundingBox:null, confidence:0,
\*  explanation:"Error processing image"}.
C4_FailuresAbsorbed ==
  /\ lastEvent.outcome # "rejected"
  /\ (lastResponse # <<>> /\ lastResponse[1].kind \in {"throw", "notext", "syntaxerror"})
       => state.currentResult = <<NegativeResult>>

\* a cycle whose response carried no text has resolved with the negative result
C4_Witness ==
  /\ lastEvent = Event("resolve", "recorded")
  /\ lastResponse = <<Outcome("notext", EmptyBody)>>
  /\ state.currentResult = <<NegativeResult>>
  /\ ~state.isProcessing

----------------------------------------------------------------------------
(* C5 *)

\* C5: every result recorded as state.currentResult from a response
\* body the declared schema admits has: detected = false implies boundingBox
\* = null and number = null (an absent number counted as null).
C5_NonDetectionCarriesNothing ==
  (/\ lastResponse # <<>>
   /\ lastResponse[1].kind = "object"
   /\ lastResponse[1].body \in SchemaBodies
   /\ state.currentResult # <<>>
   /\ state.currentResult[1].detected = False)
    => /\ state.currentResult[1].boundingBox = <<>>
       /\ state.currentResult[1].number \in {Null, Undef}

----------------------------------------------------------------------------
(* C6 *)

\* every member the DetectionResult needs is present in the parsed object
WellFormed(body) ==
  /\ body.detected \in {True, False}
  /\ body.confidence # Undef
  /\ body.boundingBox # <<>> =>
       \A c \in {"ymin", "xmin", "ymax", "xmax"} : body.boundingBox[1][c] # Undef

\* C6: a response that parses as JSON but lacks detected, confidence or a
\* coordinate of its boundingBox yields the canonical negative result, as a
\* network error does; no partially filled result is recorded.
C6_MalformedTreatedAsFailure ==
  (/\ lastResponse # <<>>
   /\ lastResponse[1].kind = "object"
   /\ ~WellFormed(lastResponse[1].body))
    => state.currentResult = <<NegativeResult>>

----------------------------------------------------------------------------
(* C7 *)

\* The environment C7 assumes: a canvas context is always obtained, a
\* pending timeout fires, the stream's metadata loads and every request
\* resolves. What the user does (toggles, clicks) and whether the camera is
\* granted are under no obligation.
FairNext ==
  \/ CameraGranted
  \/ CameraDenied
  \/ \E dims \in VideoDims : LoadedMetadata(dims)
  \/ \E key \in SettingKeys : ToggleSetting(key)
  \/ ManualTrigger(TRUE, MaxCycles)
  \/ TimerFire(TRUE, MaxCycles)
  \/ \E r \in Responses : Resolve(r)

FairSpec ==
  /\ Init /\ [][FairNext]_vars
  /\ WF_vars(TimerFire(TRUE, MaxCycles))
  /\ WF_vars(\E dims \in VideoDims : LoadedMetadata(dims))
  /\ WF_vars(\E r \in Responses : Resolve(r))

\* C7: whenever the loop toggle is on, no cycle is in flight and the
\* camera has been acquired, a classification request eventually starts
\* (unless the user switches the loop off first, or the cycles the model
\* explores are used up).
C7_LoopEventuallyRequests ==
  (settings.autoProcess /\ ~state.isProcessing /\ camera = "ok")
    ~> (inflight > 0 \/ ~settings.autoProcess \/ calls = MaxCycles)

\* the state the loop does not leave by itself: switched on, camera acquired,
\* video ready, nothing in flight and no timeout pending
C7_Stalled ==
  /\ settings.autoProcess
  /\ camera = "ok"
  /\ video.videoWidth > 0 /\ video.videoHeight > 0
  /\ ~state.isProcessing /\ inflight = 0
  /\ ~timer.pending
  /\ calls < MaxCycles

----------------------------------------------------------------------------
(* C8 *)

\* a state update of this step took isProcessing from true to false: between
\* the states before and after it, or inside it (the catch block at line 105
\* lowering the flag that line 64 raised in the same call)
FlagCleared ==
  \/ state.isProcessing /\ ~state'.isProcessing
  \/ lastEvent' # lastEvent /\ lastEvent'.outcome = "error"

\* this step recorded the value returned by the call that resolved in it
ResultRecorded ==
  /\ resolved' = resolved + 1
  /\ state'.currentResult = <<detectHandNumber(lastResponse'[1]).value>>

\* C8 as stated: every state update taking isProcessing from true to
\* false is the one that records the resolved cycle's result, and every
\* resolving cycle makes that transition.
C8_ClearedOnlyOnRecord ==
  [][ /\ FlagCleared => ResultRecorded
      /\ resolved' # resolved => (state.isProcessing /\ ~state'.isProcessing) ]_vars

\* C8 amended: between events, isProcessing goes from true to false
\* only in the update that records the resolved cycle's result, and every
\* resolving cycle makes that transition; the one other update that lowers
\* the flag is the catch block of processFrame, which lowers the flag the
\* same call raised, before any request is issued, and leaves the state as
\* it was.
C8_ClearedOnRecordOrCatch ==
  [][ /\ (state.isProcessing /\ ~state'.isProcessing) => ResultRecorded
      /\ resolved' # resolved => (state.isProcessing /\ ~state'.isProcessing)
      /\ (lastEvent' # lastEvent /\ lastEvent'.outcome = "error")
           => (state' = state /\ ~state.isProcessing /\ calls' = calls) ]_vars

\* a cycle has just resolved: the flag is down and the result is the current one
C8_Witness ==
  /\ lastEvent = Event("resolve", "recorded")
  /\ resolved = 2
  /\ ~state.isProcessing
  /\ state.currentResult = <<LastReturned>>

----------------------------------------------------------------------------
(* C9 *)

\* C9: currentResult is null until a cycle resolves and from then on is
\* the value returned by the most recently resolved call, whatever the
\* settings are when it resolves; a resolving detection is also the first
\* history entry.
C9_ResultAppliedUnconditionally ==
  /\ resolved = 0 => state.currentResult = <<>>
  /\ resolved > 0 =>
       /\ state.currentResult = <<LastReturned>>
       /\ (lastEvent.kind = "resolve" /\ LastReturned.detected = True)
            => (state.history # <<>> /\ state.history[1].result = LastReturned)

\* a request issued by the loop resolved after the loop and the box display
\* had been switched off: its detection is recorded all the same
C9_Witness ==
  /\ lastEvent = Event("resolve", "recorded")
  /\ lastIssue = "timer"
  /\ ~settings.autoProcess
  /\ ~settings.showBoundingBox
  /\ state.currentResult = <<MapResult(DetectedFour)>>
  /\ state.history # <<>>

----------------------------------------------------------------------------
(* C10 *)

\* Idle, nothing in flight, camera acquired and video ready
ManualReady ==
  /\ ~settings.autoProcess
  /\ ~state.isProcessing /\ inflight = 0
  /\ camera = "ok"
  /\ video.videoWidth > 0 /\ video.videoHeight > 0

\* while the loop toggle is off, a request is issued only by a manual
\* trigger, one per trigger
IdleIssuesOnlyOnManual ==
  (~settings.autoProcess /\ calls' # calls)
    => (lastEvent'.kind = "manual" /\ calls' = calls + 1 /\ inflight' = 1)

\* C10 as stated: a manual trigger taken while ManualReady issues
\* exactly one request, and while the toggle stays off nothing but a manual
\* trigger issues one.
C10_ManualIssuesExactlyOne ==
  [][ /\ (ManualReady /\ lastEvent'.kind = "manual")
           => (calls' = calls + 1 /\ inflight' = 1 /\ state'.isProcessing)
      /\ IdleIssuesOnlyOnManual ]_vars

\* C10 amended: a manual trigger taken while ManualReady issues exactly
\* one request when the scratch canvas gives a 2d context, and otherwise runs
\* the catch block, issuing none and leaving the state as it was; while the
\* toggle stays off nothing but a manual trigger issues a request.
C10_ManualIssuesOneUnlessCaptureFails ==
  [][ /\ (ManualReady /\ lastEvent'.kind = "manual")
           => \/ /\ lastEvent'.outcome = "issued"
                 /\ calls' = calls + 1 /\ inflight' = 1 /\ state'.isProcessing
              \/ /\ lastEvent'.outcome = "error"
                 /\ calls' = calls /\ inflight' = 0 /\ state' = state
      /\ IdleIssuesOnlyOnManual ]_vars

\* the one cycle of a manual trigger has resolved; the loop is off, nothing
\* is in flight and nothing is scheduled
C10_Witness ==
  /\ lastIssue = "manual"
  /\ lastEvent = Event("resolve", "recorded")
  /\ ~settings.autoProcess
  /\ calls = 1 /\ resolved = 1 /\ inflight = 0
  /\ ~timer.pending
  /\ ~state.isProcessing

----------------------------------------------------------------------------
(* C11 *)

\* C11: once autoProcess is off no timeout is pending (the step that
\* switches it off cancels the one scheduled), and while it stays off a
\* classification request is started only by a manual trigger: after the
\* cycle that was in flight resolves nothing is scheduled and nothing starts
\* by itself.
C11_ToggleOffStopsLoop ==
  /\ [](~settings.autoProcess => ~timer.pending)
  /\ [][ /\ (settings.autoProcess /\ ~settings'.autoProcess) => timer' = NoTimer
         /\ (~settings.autoProcess /\ ~settings'.autoProcess /\ calls' # calls)
              => lastEvent'.kind = "manual" ]_vars

\* the loop issued a request, was switched off while it was in flight, and the
\* request has resolved: nothing is in flight and nothing is scheduled
C11_Witness ==
  /\ lastIssue = "timer"
  /\ lastEvent = Event("resolve", "recorded")
  /\ ~settings.autoProcess
  /\ inflight = 0
  /\ ~state.isProcessing
  /\ timer = NoTimer

----------------------------------------------------------------------------
(* C12 *)

NotReady == video.videoWidth = 0 \/ video.videoHeight = 0

\* C12: a call of processFrame (from the button or from the timeout)
\* made while the video reports width 0 or height 0 returns at the guard: it
\* is not the error path, no classification request is issued, and
\* isProcessing, currentResult and history are unchanged.
C12_NotReadyIsNoOp ==
  [][ (NotReady /\ lastEvent' # lastEvent /\ lastEvent'.kind \in {"manual", "timer"})
        => /\ lastEvent'.outcome = "noop"
           /\ calls' = calls /\ inflight' = inflight
           /\ state' = state ]_vars

\* the camera is acquired but the metadata has not loaded; the loop's timeout
\* fired and did nothing
C12_Witness ==
  /\ camera = "ok"
  /\ NotReady
  /\ lastEvent = Event("timer", "noop")
  /\ calls = 0
  /\ state = InitialState

----------------------------------------------------------------------------
(* C13 *)

\* C13: once camera acquisition has failed it stays failed (the error
\* is never cleared, nothing retries), and no classification request is ever
\* issued: none was before the failure and no step after it issues one.
C13_CameraFailureIsFinal ==
  /\ [](camera = "failed" => (calls = 0 /\ inflight = 0 /\ state = InitialState))
  /\ [][ camera = "failed" => (camera' = "failed" /\ calls' = calls) ]_vars

\* after the failure the loop was switched on and its timeout fired: no request
C13_Witness ==
  /\ camera = "failed"
  /\ settings.autoProcess
  /\ lastEvent = Event("timer", "noop")
  /\ calls = 0

----------------------------------------------------------------------------
(* C16 *)

\* C16: whenever currentResult is non-null with detected = true, history
\* is non-empty and the result of its first entry is currentResult.
C16_CurrentDetectionHeadsHistory ==
  (state.currentResult # <<>> /\ state.currentResult[1].detected = True)
    => (state.history # <<>> /\ state.history[1].result = state.currentResult[1])

\* a detection was recorded after an earlier one, then a capture failed in the
\* catch block and a display setting was toggled: the link still holds
C16_Witness ==
  /\ Len(state.history) = 2
  /\ state.currentResult = <<state.history[1].result>>
  /\ state.history[1].result # state.history[2].result
  /\ lastEvent = Event("toggle", "none")
  /\ ~settings.showHistory

----------------------------------------------------------------------------
(* C14 *)

RECURSIVE OddPart(_)
OddPart(n) == IF n % 2 = 0 THEN OddPart(n \div 2) ELSE n

\* C14 as stated: the scratch canvas is 320 wide and its height is
\* H * 320 / W rounded to a nearest integer (either way on a tie).
C14_HeightRounded ==
  tempCanvas # <<>> =>
    LET c == tempCanvas[1]
        d == c.height * video.videoWidth - TargetWidth * video.videoHeight
    IN /\ c.width = TargetWidth
       /\ 2 * (IF d < 0 THEN -d ELSE d) <= video.videoWidth

\* C14 (amended): the scratch canvas is 320 wide and its height is
\* video.videoHeight * (320 / video.videoWidth) with the fraction dropped:
\* floor(H * 320 / W), or one less, which happens only when H * 320 / W is a
\* whole number and 320 / W is not exact in binary.
C14_HeightTruncated ==
  tempCanvas # <<>> =>
    LET c == tempCanvas[1]
        W == video.videoWidth
        H == video.videoHeight
        floor == (TargetWidth * H) \div W
    IN /\ c.width = TargetWidth
       /\ c.height \in {floor, floor - 1}
       /\ (TargetWidth * H) % W # 0 => c.height = floor
       /\ TargetWidth % OddPart(W) = 0 => c.height = floor

\* a 352x288 stream was captured: 288 * 320 / 352 is 261.8 and the canvas is
\* 261 high
C14_Witness ==
  /\ video = [videoWidth |-> 352, videoHeight |-> 288]
  /\ lastEvent = Event("manual", "issued")
  /\ tempCanvas = <<[width |-> 320, height |-> 261]>>

----------------------------------------------------------------------------
(* C15 *)

\* the box of the result the overlay was drawn from, as Numbers
SourceBox ==
  LET box == state.currentResult[1].boundingBox[1]
  IN [ymin |-> Double(box.ymin), xmin |-> Double(box.xmin),
      ymax |-> Double(box.ymax), xmax |-> Double(box.xmax)]

\* what is common to the claim and its amended form: the flipped box is
\* ordered and inside [0, 1], ymin and ymax are the source's, and
\* xmin = 0.2, xmax = 0.5 gives 0.5 and 0.8
MirrorOrderedInside ==
  LET o == overlay[1]
      b == SourceBox
  IN /\ FLeq(FZero, o.mirroredXMin)
     /\ FLeq(o.mirroredXMin, o.mirroredXMax)
     /\ FLeq(o.mirroredXMax, FOne)
     /\ o.ymin = b.ymin /\ o.ymax = b.ymax
     /\ (b.xmin = FDiv(1, 5) /\ b.xmax = FDiv(1, 2))
          => (o.mirroredXMin = FDiv(1, 2) /\ o.mirroredXMax = FDiv(4, 5))

\* a coordinate that flipping twice gives back exactly: 0, or at least 1/2
FlipsBack(f) == f.n = 0 \/ 2 * f.n >= f.d

\* C15 as stated: for a drawn box, besides order and containment, the
\* width is preserved and flipping the flipped box gives the original box,
\* both exactly.
C15_MirrorExact ==
  overlay # <<>> =>
    LET o == overlay[1]
        b == SourceBox
    IN /\ MirrorOrderedInside
       /\ FSub(o.mirroredXMax, o.mirroredXMin) = FSub(b.xmax, b.xmin)
       /\ FSub(FOne, o.mirroredXMin) = b.xmax
       /\ FSub(FOne, o.mirroredXMax) = b.xmin

\* C15 (amended): for a drawn box, the flipped box is ordered and
\* inside [0, 1], ymin and ymax are unchanged, the width is preserved to
\* within 2^-53, and flipping the flipped box gives the original coordinates to
\* within 2^-54, exactly so for a coordinate that is 0 or at least 1/2.
C15_MirrorUpToRounding ==
  overlay # <<>> =>
    LET o == overlay[1]
        b == SourceBox
        box == state.currentResult[1].boundingBox[1]
    IN /\ MirrorOrderedInside
       /\ FWithin(FSub(o.mirroredXMax, o.mirroredXMin), FSub(b.xmax, b.xmin), -53)
       /\ FWithin(FSub(FOne, o.mirroredXMin), b.xmax, -54)
       /\ FWithin(FSub(FOne, o.mirroredXMax), b.xmin, -54)
       /\ FlipsBack(box.xmax) => FSub(FOne, o.mirroredXMin) = b.xmax
       /\ FlipsBack(box.xmin) => FSub(FOne, o.mirroredXMax) = b.xmin

\* the claim's example is drawn: 0.2 and 0.5 flipped to 0.5 and 0.8, and 0.8
\* flipped again is not 0.2
C15_Witness ==
  /\ overlay # <<>>
  /\ state.currentResult[1].boundingBox[1].xmin = [n |-> 1, d |-> 5]
  /\ state.currentResult[1].boundingBox[1].xmax = [n |-> 1, d |-> 2]
  /\ overlay[1].mirroredXMin = FDiv(1, 2)
  /\ overlay[1].mirroredXMax = FDiv(4, 5)
  /\ FSub(FOne, overlay[1].mirroredXMax) # FDiv(1, 5)
  /\ lastEvent = Event("resolve", "recorded")

====
